---- MODULE Spec2Model ----
(***************************************************************************)
(* A model of rs-tiled: the Tiled map parser (src/src/lib.rs) and the      *)
(* tileset resource cache (src/src/cache.rs).                              *)
(*                                                                         *)
(* Six specifications share  the module:                                   *)
(*   GidSpec    Map::get_tileset_by_gid, the scan loop step by step        *)
(*   CacheSpec  FilesystemResourceCache, one action per trait method       *)
(*   Spec       parse and the builders it calls, one action per            *)
(*              parser.next() and one per return to the calling builder    *)
(*   DocSpec    the same actions as Spec on well-formed documents          *)
(*   DecSpec    the payload pipeline of parse_data on an encoded grid      *)
(*   PtSpec     Object::parse_points on one text, character by character   *)
(***************************************************************************)
EXTENDS Integers, Sequences, FiniteSets, TLC

VARIABLES
    \* ---- Map::get_tileset_by_gid (lib.rs 204-214)
    map_tilesets,   \* self.tilesets: sequence of [first_gid |-> u32]
    gid,            \* the queried gid (u32)
    gi,             \* position of the iterator of the for loop
    maximum_gid,    \* let mut maximum_gid: i32
    maximum_ts,     \* let mut maximum_ts: 0 is None, i is Some(&tilesets[i])
    gpc,            \* "loop" while scanning, "done" once returned
    \* ---- FilesystemResourceCache (cache.rs 51-83)
    tilesets,       \* self.tilesets: HashMap<ResourcePathBuf, Arc<Tileset>>
    nextArc,        \* the next allocation Arc::new will return
    calls,          \* per path: how many times a factory f was invoked
    okCalls,        \* per path: how many of these invocations returned Ok
    last,           \* the last cache call: method, arguments, return value
    nops,           \* number of cache calls so far
    \* ---- parse and the builders (lib.rs 129-513)
    stack,          \* the call stack: one frame per function that is in its loop
    ret,            \* the value a function has just returned to its caller
    result,         \* what parse returned to its caller, "Running" before that
    ev,             \* the event the last parser.next() delivered
    nread,          \* number of events parser.next() has delivered
    ended,          \* parser.next() has delivered EndDocument
    doc,            \* the document behind the parser: what it can contain
    open,           \* the elements of the document that are open, outermost
                    \* first, each with the names of its children so far
    \* ---- the payload of one data element (lib.rs 467-487)
    payload_ids,    \* the identifiers of the grid that was encoded
    payload_width,  \* the width parse_data is called with
    payload_text,   \* the text s of Characters(s): a sequence of characters
    decoded,        \* what the Characters(s) arm returned
    dpc,            \* "ids", "text" once encoded, "done" once decoded
    \* ---- Object::parse_points on one text (lib.rs 437-452)
    points_text,    \* the points attribute: absent, or its characters
    points_result,  \* what parse_points returned
    ppc             \* "text", "done" once parse_points has returned

gidVars   == <<map_tilesets, gid, gi, maximum_gid, maximum_ts, gpc>>
cacheVars == <<tilesets, nextArc, calls, okCalls, last, nops>>
parseVars == <<stack, ret, result, ev, nread, ended, doc, open>>
decVars   == <<payload_ids, payload_width, payload_text, decoded, dpc>>
ptVars    == <<points_text, points_result, ppc>>
vars      == <<gidVars, cacheVars, parseVars, decVars, ptVars>>

(***************************************************************************)
(* u32 and i32.  A u32 is kept as its top bit and its low 31 bits, so the  *)
(* whole 32-bit range is representable; `as i32` reinterprets the top bit  *)
(* as the sign.                                                            *)
(***************************************************************************)
I32Max == 2147483647

U32(m, l) == [msb |-> m, low |-> l]

\* a < b on u32
ULess(a, b) == a.msb < b.msb \/ (a.msb = b.msb /\ a.low < b.low)

\* x as i32 (two's complement reinterpretation)
AsI32(x) == IF x.msb = 1 THEN (x.low - I32Max) - 1 ELSE x.low

----------------------------------------------------------------------------
(***************************************************************************)
(* Map::get_tileset_by_gid                                                 *)
(***************************************************************************)
MaxTilesets == 3

\* first_gid values the tilesets are drawn from: 1, 50, 2^31, 2^32-1
FirstGids == {U32(0, 1), U32(0, 50), U32(1, 0), U32(1, I32Max)}

\* queried gids: 0, 1, 50, 51, 2^31, 2^31+1, 2^32-1
Gids == {U32(0, 0), U32(0, 1), U32(0, 50), U32(0, 51),
         U32(1, 0), U32(1, 1), U32(1, I32Max)}

TilesetLists ==
    UNION {[1..n -> [first_gid : FirstGids]] : n \in 0..MaxTilesets}

GidIdle ==
    /\ map_tilesets = <<>>
    /\ gid = U32(0, 0)
    /\ gi = 1
    /\ maximum_gid = -1
    /\ maximum_ts = 0
    /\ gpc = "idle"

GidInit ==
    /\ map_tilesets \in TilesetLists
    /\ gid \in Gids
    /\ gi = 1
    /\ maximum_gid = -1
    /\ maximum_ts = 0
    /\ gpc = "loop"

\* the condition of the if at lib.rs 208
Selects(tileset, max_gid, g) ==
    AsI32(tileset.first_gid) > max_gid /\ ULess(tileset.first_gid, g)

\* one iteration of the for loop
GidIter ==
    /\ gpc = "loop"
    /\ gi <= Len(map_tilesets)
    /\ IF Selects(map_tilesets[gi], maximum_gid, gid)
       THEN /\ maximum_gid' = AsI32(map_tilesets[gi].first_gid)
            /\ maximum_ts' = gi
       ELSE UNCHANGED <<maximum_gid, maximum_ts>>
    /\ gi' = gi + 1
    /\ UNCHANGED <<map_tilesets, gid, gpc, cacheVars, parseVars, decVars, ptVars>>

\* the iterator is exhausted: return maximum_ts
GidReturn ==
    /\ gpc = "loop"
    /\ gi > Len(map_tilesets)
    /\ gpc' = "done"
    /\ UNCHANGED <<map_tilesets, gid, gi, maximum_gid, maximum_ts, cacheVars,
                   parseVars, decVars, ptVars>>

GidNext == GidIter \/ GidReturn

----------------------------------------------------------------------------
(***************************************************************************)
(* FilesystemResourceCache                                                 *)
(***************************************************************************)
MaxOps == 4

Paths       == {"a.tsx", "b.tsx"}
TilesetVals == {"T1", "T2"}        \* tilesets a factory can construct
Errors      == {"E1", "E2"}        \* errors a factory can return

\* what the FnOnce f returns when it is called: Ok(Tileset) or Err(E)
Factories == [ok : {TRUE}, v : TilesetVals] \cup [ok : {FALSE}, v : Errors]

\* return values: Option<Arc<Tileset>> and Result<Arc<Tileset>, E>
NoRet      == [kind |-> "NoRet", arc |-> 0, v |-> "-"]
None       == [kind |-> "None", arc |-> 0, v |-> "-"]
Some(e)    == [kind |-> "Some", arc |-> e.arc, v |-> e.ts]
Ok(e)      == [kind |-> "Ok", arc |-> e.arc, v |-> e.ts]
Err(x)     == [kind |-> "Err", arc |-> 0, v |-> x]

NoFactory  == [ok |-> FALSE, v |-> "-"]

CacheIdle ==
    /\ tilesets = <<>>
    /\ nextArc = 1
    /\ calls = [p \in Paths |-> 0]
    /\ okCalls = [p \in Paths |-> 0]
    /\ last = [op |-> "new", path |-> "-", f |-> NoFactory, ret |-> NoRet,
               called |-> FALSE]
    /\ nops = 0

\* FilesystemResourceCache::new
CacheInit == CacheIdle

\* self.tilesets.get(path.as_ref()).map(Clone::clone)
Lookup_Miss(m, path) == None
Lookup(m, path) == IF path \in DOMAIN m THEN Some(m[path]) ELSE None

get_tileset(path) ==
    /\ nops < MaxOps
    /\ nops' = nops + 1
    /\ last' = [op |-> "get", path |-> path, f |-> NoFactory,
                ret |-> Lookup(tilesets, path), called |-> FALSE]
    /\ UNCHANGED <<tilesets, nextArc, calls, okCalls, gidVars, parseVars,
                   decVars, ptVars>>

\* self.tilesets.entry(path) is Entry::Occupied
IsOccupied_Never(m, path) == FALSE
IsOccupied(m, path) == path \in DOMAIN m

\* Entry::Occupied(o) => o.into_mut(): the stored Arc
OccupiedEntry_Copy(m, path) == [arc |-> m[path].arc + 1, ts |-> m[path].ts]
OccupiedEntry(m, path) == m[path]

\* Entry::Vacant(v) => v.insert(Arc::new(f()?)): `?` returns before insert
VacantInsert_Always(m, path, f, arc) ==
    (path :> [arc |-> arc, ts |-> f.v]) @@ m
VacantInsert(m, path, f, arc) ==
    IF f.ok THEN (path :> [arc |-> arc, ts |-> f.v]) @@ m ELSE m

get_or_try_insert_tileset_with(path, f) ==
    /\ nops < MaxOps
    /\ nops' = nops + 1
    /\ IF IsOccupied(tilesets, path)
       THEN /\ last' = [op |-> "insert", path |-> path, f |-> f,
                        ret |-> Ok(OccupiedEntry(tilesets, path)),
                        called |-> FALSE]
            /\ UNCHANGED <<tilesets, nextArc, calls, okCalls>>
       ELSE /\ calls' = [calls EXCEPT ![path] = @ + 1]
            /\ okCalls' = [okCalls EXCEPT ![path] = IF f.ok THEN @ + 1 ELSE @]
            /\ tilesets' = VacantInsert(tilesets, path, f, nextArc)
            /\ nextArc' = IF f.ok THEN nextArc + 1 ELSE nextArc
            /\ last' = [op |-> "insert", path |-> path, f |-> f,
                        ret |-> IF f.ok THEN Ok([arc |-> nextArc, ts |-> f.v])
                                        ELSE Err(f.v),
                        called |-> TRUE]
    /\ UNCHANGED <<gidVars, parseVars, decVars, ptVars>>

CacheNext ==
    \/ \E path \in Paths : get_tileset(path)
    \/ \E path \in Paths, f \in Factories :
          get_or_try_insert_tileset_with(path, f)

----------------------------------------------------------------------------
(***************************************************************************)
(* The XML events parser.next() delivers (xml::reader::events::XmlEvent).  *)
(* An attribute list is a sequence of <<name, text>> pairs.                *)
(***************************************************************************)
MaxEvents  == 7     \* events before the source reports EndDocument
MaxDocEvents == 5   \* events read of a well-formed document after its entry
MaxPayload == 3     \* u32 values in one decompressed tile payload

NoText == [b64 |-> FALSE, ints |-> <<>>, end |-> "-"]

StartElement(n, a) == [type |-> "StartElement", name |-> n, attributes |-> a,
                       text |-> NoText]
EndElement(n)      == [type |-> "EndElement", name |-> n, attributes |-> <<>>,
                       text |-> NoText]
Characters(t)      == [type |-> "Characters", name |-> "-", attributes |-> <<>>,
                       text |-> t]
EndDocument        == [type |-> "EndDocument", name |-> "-", attributes |-> <<>>,
                       text |-> NoText]
\* Comment, Whitespace, StartDocument, ...: every match sends them to `_`
OtherEvent         == [type |-> "Comment", name |-> "-", attributes |-> <<>>,
                       text |-> NoText]
\* before the first parser.next()
NoEvent            == [type |-> "-", name |-> "-", attributes |-> <<>>,
                       text |-> NoText]

\* Option<T>
OptNone    == [some |-> FALSE, v |-> 0]
OptSome(x) == [some |-> TRUE, v |-> x]
UnwrapOr(o, d) == IF o.some THEN o.v ELSE d

\* the decimal texts the attributes are drawn from, with their values
Decimals == ("0" :> 0) @@ ("1" :> 1) @@ ("2" :> 2) @@ ("10" :> 10)
            @@ ("16" :> 16) @@ ("50" :> 50) @@ ("-1" :> (0 - 1))

\* v.parse() for u32 and for i32
ParseU32(s) == IF s \in DOMAIN Decimals /\ Decimals[s] >= 0
               THEN OptSome(Decimals[s]) ELSE OptNone
ParseI32(s) == IF s \in DOMAIN Decimals THEN OptSome(Decimals[s]) ELSE OptNone

\* v.parse() for f32 (opacity), kept as the text of the number
ParseF32(s) == IF s \in DOMAIN Decimals \/ s \in {"0.5", "1.0"}
               THEN OptSome(s) ELSE OptNone

\* v.parse() for bool (Object's visible)
ParseBool(s) == IF s = "true" THEN OptSome(TRUE)
                ELSE IF s = "false" THEN OptSome(FALSE) ELSE OptNone

\* v.parse().map(|x:i32| x == 1) (Layer's and ObjectGroup's visible)
ParseVisible(s) == IF ParseI32(s).some THEN OptSome(ParseI32(s).v = 1)
                   ELSE OptNone

\* |v| Some(v)
ParseString(s) == OptSome(s)

\* impl FromStr for Orientation
ParseOrientation(s) ==
    IF s = "orthogonal" THEN OptSome("Orthogonal")
    ELSE IF s = "isometric" THEN OptSome("Isometric")
    ELSE IF s = "Staggered" THEN OptSome("Staggered")
    ELSE OptNone

\* impl FromStr for Colour, on the colour texts the attributes are drawn from
ParseColour(s) ==
    IF s \in {"#ff0000", "ff0000"}
    THEN OptSome([red |-> 255, green |-> 0, blue |-> 0])
    ELSE OptNone

\* the $method of one field of get_attrs!, named by its target type
Convert(method, s) ==
    CASE method = "u32" -> ParseU32(s)
      [] method = "i32" -> ParseI32(s)
      [] method = "f32" -> ParseF32(s)
      [] method = "bool" -> ParseBool(s)
      [] method = "visible" -> ParseVisible(s)
      [] method = "String" -> ParseString(s)
      [] method = "Orientation" -> ParseOrientation(s)
      [] method = "Colour" -> ParseColour(s)

Attr_NeverNone(attrs, name, method) ==
    LET at == {i \in 1..Len(attrs) : attrs[i][1] = name}
    IN  IF at = {} THEN OptSome(0)
        ELSE Convert(method, attrs[CHOOSE i \in at : \A j \in at : j <= i][2])
\* get_attrs!: the variable of one field after the scan of the attribute
\* list; every attribute of that name assigns it, so the last one decides
Attr(attrs, name, method) ==
    LET at == {i \in 1..Len(attrs) : attrs[i][1] = name}
    IN  IF at = {} THEN OptNone
        ELSE Convert(method, attrs[CHOOSE i \in at : \A j \in at : j <= i][2])

\* TiledError
TiledError(kind, msg) == [kind |-> kind, msg |-> msg]
MalformedAttributes(msg) == TiledError("MalformedAttributes", msg)
PrematureEnd(msg) == TiledError("PrematureEnd", msg)

DecodingError      == TiledError("DecodingError", "FromBase64Error")
DecompressingError == TiledError("DecompressingError", "IoError")
Other(msg)         == TiledError("Other", msg)
NoError            == TiledError("-", "-")

----------------------------------------------------------------------------
(***************************************************************************)
(* The character payload of a data element.  A text is kept as what the    *)
(* two library calls make of it: whether from_base64 accepts it, the u32   *)
(* values read_le_u32 reads from the ZlibDecoder, and whether the reads    *)
(* end with EndOfFile ("eof") or with another IoError ("err").             *)
(***************************************************************************)
Texts ==
    {[b64 |-> FALSE, ints |-> <<>>, end |-> "eof"]}
    \cup {[b64 |-> TRUE, ints |-> [i \in 1..n |-> i], end |-> x] :
            n \in 0..MaxPayload, x \in {"eof", "err"}}

\* the inner loop of parse_data (lib.rs 473-483): push every value read on
\* the row and move the row to data when it holds width values; this is
\* data when the reads are exhausted
RECURSIVE ReadLoop(_, _, _, _, _)
ReadLoop(ints, width, i, data, row) ==
    IF i > Len(ints) THEN data
    ELSE LET pushed == Append(row, ints[i])
         IN  IF Len(pushed) = width
             THEN ReadLoop(ints, width, i + 1, Append(data, pushed), <<>>)
             ELSE ReadLoop(ints, width, i + 1, data, pushed)

Rows_KeepPartial(ints, width) ==
    LET data == ReadLoop(ints, width, 1, <<>>, <<>>)
        used == width * Len(data)
    IN  IF used < Len(ints)
        THEN Append(data, SubSeq(ints, used + 1, Len(ints)))
        ELSE data
Rows(ints, width) == ReadLoop(ints, width, 1, <<>>, <<>>)

\* the Characters(s) arm of parse_data (lib.rs 467-487):
\* [ok, v] is Ok(v), [~ok, err] is Err(err)
DecodeCharacters(t, width) ==
    IF ~t.b64 THEN [ok |-> FALSE, v |-> <<>>, err |-> DecodingError]
    ELSE IF t.end = "eof"
         THEN [ok |-> TRUE, v |-> Rows(t.ints, width), err |-> NoError]
         ELSE [ok |-> FALSE, v |-> <<>>, err |-> DecompressingError]

(***************************************************************************)
(* The payload pipeline of parse_data on one Characters(s), byte by byte   *)
(* (lib.rs 468-483): s.trim(), from_base64(), ZlibDecoder, read_le_u32.    *)
(* A text is a sequence of characters; a character is its base64 digit     *)
(* value 0..63, Pad for '=' or Space for white space.  A byte is 0..255.   *)
(***************************************************************************)
Pad   == 64
Space == 65

\* s.trim() (lib.rs 468): white space is removed at both ends only
RECURSIVE TrimLeft(_)
TrimLeft(s) ==
    IF s # <<>> /\ Head(s) = Space THEN TrimLeft(Tail(s)) ELSE s

RECURSIVE TrimRight(_)
TrimRight(s) ==
    IF s # <<>> /\ s[Len(s)] = Space
    THEN TrimRight(SubSeq(s, 1, Len(s) - 1)) ELSE s

Trim(s) == TrimRight(TrimLeft(s))

\* the bytes of one group of 2, 3 or 4 base64 digits
GroupBytes(g) ==
    LET d(i) == IF i <= Len(g) THEN g[i] ELSE 0
        b1 == d(1) * 4 + d(2) \div 16
        b2 == (d(2) % 16) * 16 + d(3) \div 4
        b3 == (d(3) % 4) * 64 + d(4)
    IN  SubSeq(<<b1, b2, b3>>, 1, Len(g) - 1)

RECURSIVE DigitsToBytes(_)
DigitsToBytes(digits) ==
    IF digits = <<>> THEN <<>>
    ELSE IF Len(digits) <= 4 THEN GroupBytes(digits)
    ELSE GroupBytes(SubSeq(digits, 1, 4))
             \o DigitsToBytes(SubSeq(digits, 5, Len(digits)))

\* from_base64() (lib.rs 468): the digits up to the padding are decoded;
\* a character that is no digit, or a single digit left over, is an error
FromBase64(s) ==
    LET digits == SelectSeq(s, LAMBDA ch : ch # Pad)
        padded == \E i \in 1..Len(s) : s[i] = Pad
        wellPadded ==
            /\ \A i \in 1..Len(s) : s[i] = Pad => \A j \in i..Len(s) : s[j] = Pad
            /\ Len(s) - Len(digits) <= 2
    IN  IF /\ \A i \in 1..Len(digits) : digits[i] \in 0..63
           /\ wellPadded
           /\ Len(digits) % 4 # 1
        THEN [ok |-> TRUE, bytes |-> DigitsToBytes(digits)]
        ELSE [ok |-> FALSE, bytes |-> <<>>]

\* the check value a zlib stream carries after the compressed data
RECURSIVE ByteSum(_)
ByteSum(bytes) ==
    IF bytes = <<>> THEN 1 ELSE (Head(bytes) + ByteSum(Tail(bytes))) % 256

ZlibHeader == <<120, 156>>

\* ZlibDecoder (lib.rs 470): the bytes the decoder yields and how its
\* stream ends, EndOfFile ("eof") or another IoError ("err").  The deflate
\* coding itself is a library primitive: a stream is modelled as the
\* header, the stored bytes and the check value.
Inflate(z) ==
    LET n == Len(z)
        raw == SubSeq(z, 3, n - 1)
    IN  IF n >= 3 /\ SubSeq(z, 1, 2) = ZlibHeader /\ z[n] = ByteSum(raw)
        THEN [bytes |-> raw, end |-> "eof"]
        ELSE [bytes |-> <<>>, end |-> "err"]

ReadLeU32_BigEndian(b) ==
    U32(b[1] \div 128,
        b[4] + 256 * b[3] + 65536 * b[2] + 16777216 * (b[1] % 128))
\* read_le_u32 (lib.rs 474) on the next four bytes: the first byte is the
\* least significant
ReadLeU32(b) ==
    U32(b[4] \div 128,
        b[1] + 256 * b[2] + 65536 * b[3] + 16777216 * (b[4] % 128))

\* the values zd.read_le_u32() returns until it fails (lib.rs 473-477):
\* fewer than four bytes left is EndOfFile
RECURSIVE ReadAll(_)
ReadAll(bytes) ==
    IF Len(bytes) < 4 THEN <<>>
    ELSE <<ReadLeU32(SubSeq(bytes, 1, 4))>>
             \o ReadAll(SubSeq(bytes, 5, Len(bytes)))

\* what the Characters(s) arm sees of a text s: whether it is base64, the
\* u32 values read and how the reads end
Payload(s) ==
    LET d == FromBase64(Trim(s))
        z == Inflate(d.bytes)
    IN  IF ~d.ok THEN [b64 |-> FALSE, ints |-> <<>>, end |-> "eof"]
        ELSE [b64 |-> TRUE, ints |-> ReadAll(z.bytes), end |-> z.end]

----------------------------------------------------------------------------
(***************************************************************************)
(* The builders up to their parse_tag! loop.  A builder that gets past     *)
(* get_attrs! enters its loop with a frame that holds its local variables; *)
(* one that does not returns Err at once.                                  *)
(***************************************************************************)
\* depth is the nesting depth, in the document, of the element the function
\* was called for; it is set when the function is called
Frame(fn, loc) == [fn |-> fn, loc |-> loc, depth |-> 0]
NoFrame      == Frame("-", [x |-> 0])
Enter(frame) == [ok |-> TRUE, frame |-> frame, err |-> NoError]
Fail(err)    == [ok |-> FALSE, frame |-> NoFrame, err |-> err]

\* parse: let mut parser = EventReader::new(reader)
parse_new == Frame("parse", [x |-> 0])

\* Map::new, lib.rs 163-177
Map_new(attrs) ==
    LET c  == Attr(attrs, "backgroundcolor", "Colour")
        v  == Attr(attrs, "version", "String")
        o  == Attr(attrs, "orientation", "Orientation")
        w  == Attr(attrs, "width", "u32")
        h  == Attr(attrs, "height", "u32")
        tw == Attr(attrs, "tilewidth", "u32")
        th == Attr(attrs, "tileheight", "u32")
    IN  IF ~(v.some /\ o.some /\ w.some /\ h.some /\ tw.some /\ th.some)
        THEN Fail(MalformedAttributes("map"))
        ELSE Enter(Frame("Map",
                 [version |-> v.v, orientation |-> o.v,
                  width |-> w.v, height |-> h.v,
                  tile_width |-> tw.v, tile_height |-> th.v,
                  tilesets |-> <<>>, layers |-> <<>>,
                  object_groups |-> <<>>, properties |-> <<>>,
                  background_colour |-> c]))

\* Tileset::new, lib.rs 252-262
Tileset_new(attrs) ==
    LET s == Attr(attrs, "spacing", "u32")
        m == Attr(attrs, "margin", "u32")
        g == Attr(attrs, "firstgid", "u32")
        n == Attr(attrs, "name", "String")
        w == Attr(attrs, "tilewidth", "u32")
        h == Attr(attrs, "tileheight", "u32")
    IN  IF ~(g.some /\ n.some /\ w.some /\ h.some)
        THEN Fail(MalformedAttributes("tileset"))
        ELSE Enter(Frame("Tileset",
                 [first_gid |-> g.v, name |-> n.v,
                  tile_width |-> w.v, tile_height |-> h.v,
                  spacing |-> UnwrapOr(s, 0), margin |-> UnwrapOr(m, 0),
                  images |-> <<>>]))

\* Image::new, lib.rs 288-294
Image_new(attrs) ==
    LET c == Attr(attrs, "trans", "Colour")
        s == Attr(attrs, "source", "String")
        w == Attr(attrs, "width", "i32")
        h == Attr(attrs, "height", "i32")
    IN  IF ~(s.some /\ w.some /\ h.some)
        THEN Fail(MalformedAttributes("image"))
        ELSE Enter(Frame("Image",
                 [source |-> s.v, width |-> w.v, height |-> h.v,
                  transparent_colour |-> c]))

\* Layer::new, lib.rs 314-321; width is the caller's w.  data_runs counts
\* the calls of parse_data that have returned Ok to this call of Layer::new.
Layer_new(attrs, width) ==
    LET o == Attr(attrs, "opacity", "f32")
        v == Attr(attrs, "visible", "visible")
        n == Attr(attrs, "name", "String")
    IN  IF ~n.some
        THEN Fail(MalformedAttributes("layer"))
        ELSE Enter(Frame("Layer",
                 [name |-> n.v, opacity |-> UnwrapOr(o, "1.0"),
                  visible |-> UnwrapOr(v, TRUE), width |-> width,
                  tiles |-> <<>>, properties |-> <<>>, data_runs |-> 0]))

parse_data_new_AnyFormat(attrs, width) ==
    LET e == Attr(attrs, "encoding", "String")
        c == Attr(attrs, "compression", "String")
    IN  IF ~(e.some /\ c.some)
        THEN Fail(MalformedAttributes("data"))
        ELSE Enter(Frame("parse_data", [width |-> width]))
\* parse_data, lib.rs 456-464
parse_data_new(attrs, width) ==
    LET e == Attr(attrs, "encoding", "String")
        c == Attr(attrs, "compression", "String")
    IN  IF ~(e.some /\ c.some)
        THEN Fail(MalformedAttributes("data"))
        ELSE IF ~(e.v = "base64" /\ c.v = "zlib")
        THEN Fail(Other("Only base64 and zlib allowed for the moment"))
        ELSE Enter(Frame("parse_data", [width |-> width]))

\* parse_properties, lib.rs 130
parse_properties_new == Enter(Frame("parse_properties", [p |-> <<>>]))

\* ObjectGroup::new, lib.rs 347-354
ObjectGroup_new(attrs) ==
    LET o == Attr(attrs, "opacity", "f32")
        v == Attr(attrs, "visible", "visible")
        c == Attr(attrs, "color", "Colour")
        n == Attr(attrs, "name", "String")
    IN  IF ~n.some
        THEN Fail(MalformedAttributes("objectgroup"))
        ELSE Enter(Frame("ObjectGroup",
                 [name |-> n.v, opacity |-> UnwrapOr(o, "1.0"),
                  visible |-> UnwrapOr(v, TRUE), objects |-> <<>>,
                  colour |-> c]))

\* Object::new, lib.rs 377-386
Object_new(attrs) ==
    LET w == Attr(attrs, "width", "u32")
        h == Attr(attrs, "height", "u32")
        v == Attr(attrs, "visible", "bool")
        x == Attr(attrs, "x", "i32")
        y == Attr(attrs, "y", "i32")
    IN  IF ~(x.some /\ y.some)
        THEN Fail(MalformedAttributes("object"))
        ELSE Enter(Frame("Object",
                 [w |-> w, h |-> h, v |-> UnwrapOr(v, TRUE),
                  x |-> x.v, y |-> y.v, obj |-> OptNone]))

----------------------------------------------------------------------------
(***************************************************************************)
(* Object's shape handlers (lib.rs 388-405, 417-452)                       *)
(***************************************************************************)
\* the characters of the points texts the attributes are drawn from
PointsChars ==
    ("0,0 10,0 10,10" :> <<"0", ",", "0", " ", "1", "0", ",", "0", " ",
                           "1", "0", ",", "1", "0">>)
    @@ ("0,0 x,1" :> <<"0", ",", "0", " ", "x", ",", "1">>)
    @@ ("1,2,3" :> <<"1", ",", "2", ",", "3">>)
    @@ ("5" :> <<"5">>)

\* the position of the first sep in the text cs, 0 if there is none
FirstAt(cs, sep) ==
    IF \A i \in 1..Len(cs) : cs[i] # sep THEN 0
    ELSE CHOOSE i \in 1..Len(cs) :
             cs[i] = sep /\ \A j \in 1..(i - 1) : cs[j] # sep

RECURSIVE Split_SkipEmpty(_, _)
Split_SkipEmpty(cs, sep) ==
    LET k == FirstAt(cs, sep)
        piece == IF k = 0 THEN cs ELSE SubSeq(cs, 1, k - 1)
        rest == IF k = 0 THEN <<>>
                ELSE Split_SkipEmpty(SubSeq(cs, k + 1, Len(cs)), sep)
    IN  IF piece = <<>> THEN rest ELSE <<piece>> \o rest

\* s.split(' ') (lib.rs 438): the pieces between the separators, empty
\* pieces included
RECURSIVE Split(_, _)
Split(cs, sep) ==
    LET k == FirstAt(cs, sep)
    IN  IF k = 0 THEN <<cs>>
        ELSE <<SubSeq(cs, 1, k - 1)>> \o Split(SubSeq(cs, k + 1, Len(cs)), sep)

\* p.splitn(1, ',') (lib.rs 440): at most one split, at the first separator
Splitn1(cs, sep) ==
    LET k == FirstAt(cs, sep)
    IN  IF k = 0 THEN <<cs>>
        ELSE <<SubSeq(cs, 1, k - 1), SubSeq(cs, k + 1, Len(cs))>>

DigitValue ==
    ("0" :> 0) @@ ("1" :> 1) @@ ("2" :> 2) @@ ("3" :> 3) @@ ("4" :> 4)
    @@ ("5" :> 5) @@ ("6" :> 6) @@ ("7" :> 7) @@ ("8" :> 8) @@ ("9" :> 9)

RECURSIVE DigitsValue(_, _)
DigitsValue(ds, acc) ==
    IF ds = <<>> THEN acc
    ELSE DigitsValue(Tail(ds), acc * 10 + DigitValue[Head(ds)])

\* v[0].parse() and v[1].parse() to i32 (lib.rs 445): an optional '-' and
\* at least one digit, nothing else; the texts are too short to overflow
ParseI32Text(cs) ==
    LET neg == cs # <<>> /\ Head(cs) = "-"
        ds  == IF neg THEN Tail(cs) ELSE cs
    IN  IF ds # <<>> /\ \A i \in 1..Len(ds) : ds[i] \in DOMAIN DigitValue
        THEN OptSome(IF neg THEN 0 - DigitsValue(ds, 0)
                     ELSE DigitsValue(ds, 0))
        ELSE OptNone

\* Object::parse_points, the for loop from token i on
RECURSIVE PointsLoop(_, _, _)
PointsLoop(pairs, i, points) ==
    IF i > Len(pairs) THEN [ok |-> TRUE, v |-> points, err |-> NoError]
    ELSE IF Len(pairs[i]) # 2
    THEN [ok |-> FALSE, v |-> <<>>, err |-> MalformedAttributes("point pair")]
    ELSE LET x == ParseI32Text(pairs[i][1])
             y == ParseI32Text(pairs[i][2])
         IN  IF ~x.some \/ ~y.some
             THEN [ok |-> FALSE, v |-> <<>>,
                   err |-> MalformedAttributes("point integer")]
             ELSE PointsLoop(pairs, i + 1, Append(points, <<x.v, y.v>>))

\* Object::parse_points on the characters of s
parse_points(cs) ==
    LET tokens == Split(cs, " ")
    IN  PointsLoop([i \in 1..Len(tokens) |-> Splitn1(tokens[i], ",")],
                   1, <<>>)

\* the points attribute of a polyline or polygon start tag: the characters
\* of its text, or that it is absent
PointsGiven(cs) == [some |-> TRUE, v |-> cs]
PointsAbsent    == [some |-> FALSE, v |-> <<>>]

\* get_attrs! and try!(Object::parse_points(s)) of new_polyline and
\* new_polygon (lib.rs 418-423, 428-433) on the points attribute s
poly_points(variant, s) ==
    IF ~s.some
    THEN [ok |-> FALSE, v |-> <<>>, err |-> MalformedAttributes(variant)]
    ELSE parse_points(s.v)

\* Object::new_polyline and Object::new_polygon
new_poly(variant, x, y, v, attrs) ==
    LET s == Attr(attrs, "points", "String")
        points == poly_points(variant,
                              IF s.some THEN PointsGiven(PointsChars[s.v])
                              ELSE PointsAbsent)
    IN  IF ~points.ok
        THEN [ok |-> FALSE, v |-> 0, err |-> points.err]
        ELSE [ok |-> TRUE,
              v |-> [variant |-> variant, x |-> x, y |-> y,
                     points |-> points.v, visible |-> v],
              err |-> NoError]

\* Object::Rect and Object::Ellipse
Shape(variant, loc) ==
    [variant |-> variant, x |-> loc.x, y |-> loc.y,
     width |-> loc.w.v, height |-> loc.h.v, visible |-> loc.v]

\* the handler the object's loop calls for a shape child
Object_child(loc, e) ==
    IF e.name = "ellipse"
    THEN IF ~loc.w.some \/ ~loc.h.some
         THEN [ok |-> FALSE, v |-> 0, err |-> MalformedAttributes("ellipse")]
         ELSE [ok |-> TRUE, v |-> Shape("Ellipse", loc), err |-> NoError]
    ELSE IF e.name = "polyline"
    THEN new_poly("Polyline", loc.x, loc.y, loc.v, e.attributes)
    ELSE new_poly("Polygon", loc.x, loc.y, loc.v, e.attributes)

\* what Object::new returns after its loop (lib.rs 406-414)
Object_result(loc) ==
    IF loc.obj.some THEN [ok |-> TRUE, v |-> loc.obj.v, err |-> NoError]
    ELSE IF loc.w.some /\ loc.h.some
    THEN [ok |-> TRUE, v |-> Shape("Rect", loc), err |-> NoError]
    ELSE [ok |-> FALSE, v |-> 0, err |-> MalformedAttributes("rect")]

\* the property handler of parse_properties (lib.rs 132-141)
property_child(p, attrs) ==
    LET k == Attr(attrs, "name", "String")
        v == Attr(attrs, "value", "String")
    IN  IF ~(k.some /\ v.some)
        THEN [ok |-> FALSE, v |-> p, err |-> MalformedAttributes("property")]
        ELSE [ok |-> TRUE, v |-> (k.v :> v.v) @@ p, err |-> NoError]

\* Layer { .. } as Layer::new returns it (lib.rs 331-332)
Layer_struct(loc) ==
    [name |-> loc.name, opacity |-> loc.opacity, visible |-> loc.visible,
     tiles |-> loc.tiles, properties |-> loc.properties]

----------------------------------------------------------------------------
(***************************************************************************)
(* The event source and the call stack                                     *)
(***************************************************************************)
MapAttributes(w) ==
    <<<<"version", "1.0">>, <<"orientation", "orthogonal">>, <<"width", w>>,
      <<"height", "1">>, <<"tilewidth", "16">>, <<"tileheight", "16">>>>

\* the start tags the source can deliver
StartElements ==
    {StartElement("map", MapAttributes(w)) : w \in {"0", "1", "2"}}
    \cup {StartElement("map", <<<<"version", "1.0">>>>)}
    \cup {StartElement("tileset", a) :
            a \in {<<<<"firstgid", "1">>, <<"name", "ts">>,
                     <<"tilewidth", "16">>, <<"tileheight", "16">>>>,
                   <<<<"name", "ts">>, <<"tilewidth", "16">>,
                     <<"tileheight", "16">>>>}}
    \cup {StartElement("image", a) :
            a \in {<<<<"source", "a.png">>, <<"width", "16">>,
                     <<"height", "16">>>>,
                   <<<<"source", "a.png">>>>}}
    \cup {StartElement("layer", a) : a \in {<<<<"name", "l">>>>, <<>>}}
    \cup {StartElement("data", a) :
            a \in {<<<<"encoding", "base64">>, <<"compression", "zlib">>>>,
                   <<<<"encoding", "base64">>, <<"compression", "gzip">>>>,
                   <<<<"encoding", "base64">>>>}}
    \cup {StartElement("properties", <<>>)}
    \cup {StartElement("property", a) :
            a \in {<<<<"name", "k">>, <<"value", "v">>>>, <<<<"name", "k">>>>}}
    \cup {StartElement("objectgroup", a) : a \in {<<<<"name", "og">>>>, <<>>}}
    \cup {StartElement("object", a) :
            a \in {<<<<"x", "1">>, <<"y", "2">>, <<"width", "1">>,
                     <<"height", "2">>>>,
                   <<<<"x", "1">>, <<"y", "2">>>>,
                   <<<<"x", "1">>>>}}
    \cup {StartElement("ellipse", <<>>)}
    \cup {StartElement(n, a) :
            n \in {"polyline", "polygon"},
            a \in {<<<<"points", "0,0 10,0 10,10">>>>, <<<<"points", "5">>>>,
                   <<>>}}
    \cup {StartElement("extension", <<>>)}

ElementNames ==
    {"map", "tileset", "image", "layer", "data", "properties", "property",
     "objectgroup", "object", "ellipse", "polyline", "polygon", "extension"}

Events ==
    StartElements
    \cup {EndElement(n) : n \in ElementNames}
    \cup {Characters(t) : t \in Texts}
    \cup {OtherEvent, EndDocument}

(***************************************************************************)
(* Well-formed documents.  A document is read from the point where the     *)
(* elements of entry have been opened, each the first child of the one     *)
(* before, and the builders called for them are in their loops; from there *)
(* it can contain the events of events, properly nested.                   *)
(***************************************************************************)
MapStart         == StartElement("map", MapAttributes("2"))
LayerStart       == StartElement("layer", <<<<"name", "l">>>>)
ObjectGroupStart == StartElement("objectgroup", <<<<"name", "og">>>>)
ExtensionStart   == StartElement("extension", <<>>)

DataStarts ==
    {StartElement("data", a) :
        a \in {<<<<"encoding", "base64">>, <<"compression", "zlib">>>>,
               <<<<"encoding", "base64">>, <<"compression", "gzip">>>>,
               <<<<"encoding", "csv">>, <<"compression", "zlib">>>>,
               <<<<"encoding", "base64">>>>,
               <<<<"compression", "zlib">>>>}}

SupportedData ==
    StartElement("data", <<<<"encoding", "base64">>, <<"compression", "zlib">>>>)

TilesetStarts ==
    {StartElement("tileset", a) :
        a \in {<<<<"firstgid", "1">>, <<"name", "ts">>,
                 <<"tilewidth", "16">>, <<"tileheight", "16">>>>,
               <<<<"firstgid", "2">>, <<"name", "ts">>, <<"columns", "3">>,
                 <<"tilewidth", "16">>, <<"tileheight", "16">>,
                 <<"spacing", "2">>, <<"margin", "x">>>>,
               <<<<"name", "ts">>, <<"tilewidth", "16">>,
                 <<"tileheight", "16">>>>,
               <<<<"firstgid", "-1">>, <<"name", "ts">>,
                 <<"tilewidth", "16">>, <<"tileheight", "16">>>>,
               <<<<"firstgid", "1">>, <<"name", "ts">>,
                 <<"tilewidth", "16">>, <<"tileheight", "x">>>>}}

ImageStarts ==
    {StartElement("image", a) :
        a \in {<<<<"source", "a.png">>, <<"width", "16">>,
                 <<"height", "16">>>>,
               <<<<"source", "a.png">>>>}}

ObjectWithSize ==
    StartElement("object", <<<<"x", "1">>, <<"y", "2">>, <<"width", "1">>,
                             <<"height", "2">>>>)
ObjectWithoutSize == StartElement("object", <<<<"x", "1">>, <<"y", "2">>>>)
ObjectStarts == {ObjectWithSize, ObjectWithoutSize}

EllipseStart == StartElement("ellipse", <<>>)
ShapeStarts ==
    {EllipseStart,
     StartElement("polyline", <<<<"points", "0,0 10,0 10,10">>>>),
     StartElement("polygon", <<<<"points", "0,0 10,0 10,10">>>>)}

PropertyStarts ==
    {StartElement("properties", <<>>),
     StartElement("property", <<<<"name", "k">>, <<"value", "v">>>>),
     StartElement("property", <<<<"name", "k">>>>)}

\* a payload of two values, and a text that is not base64
DocTexts ==
    {t \in Texts : ~t.b64 \/ (t.end = "eof" /\ Len(t.ints) = 2)}

Scenario(entry, events) == [entry |-> entry, events |-> events]

Scenarios ==
    {Scenario(<<>>, {MapStart, ExtensionStart}),
     Scenario(<<MapStart>>,
              {LayerStart, SupportedData, ExtensionStart}
                  \cup {Characters(t) : t \in DocTexts}),
     Scenario(<<MapStart, LayerStart>>,
              DataStarts \cup {Characters(t) : t \in DocTexts}),
     Scenario(<<MapStart, ObjectGroupStart>>,
              ObjectStarts \cup {EllipseStart}),
     Scenario(<<MapStart, ObjectGroupStart, ObjectWithSize>>,
              ShapeStarts \cup {ExtensionStart}),
     Scenario(<<MapStart, ObjectGroupStart, ObjectWithoutSize>>,
              ShapeStarts \cup {ExtensionStart}),
     Scenario(<<MapStart>>, TilesetStarts \cup ImageStarts),
     Scenario(<<MapStart>>, PropertyStarts \cup {LayerStart})}

AllEvents == Events \cup UNION {sc.events : sc \in Scenarios}

\* the values a function returns to its caller
RetNone      == [kind |-> "None", fn |-> "-", v |-> 0, err |-> NoError]
RetOk(fn, v) == [kind |-> "Ok", fn |-> fn, v |-> v, err |-> NoError]
RetErr(e)    == [kind |-> "Err", fn |-> "-", v |-> 0, err |-> e]
Running      == [kind |-> "Running", fn |-> "-", v |-> 0, err |-> NoError]

Top    == stack[Len(stack)]
Popped == SubSeq(stack, 1, Len(stack) - 1)
WithLoc(loc) == [stack EXCEPT ![Len(stack)].loc = loc]

\* a direct child of an open element: its start tag and, once it is closed,
\* the names of its own direct children
Child(e) == [name |-> e.name, attributes |-> e.attributes, kids |-> <<>>]

\* any events in any order: the parser is not assumed to check nesting
AnyDocument == [wellformed |-> FALSE, entry |-> 0, events |-> {}]

ParseIdle ==
    /\ stack = <<>>
    /\ ret = RetNone
    /\ result = RetNone
    /\ ev = NoEvent
    /\ nread = 0
    /\ ended = FALSE
    /\ doc = AnyDocument
    /\ open = <<>>

\* parse has been called and is about to enter its loop
ParseInit ==
    /\ stack = <<parse_new>>
    /\ ret = RetNone
    /\ result = Running
    /\ ev = NoEvent
    /\ nread = 0
    /\ ended = FALSE
    /\ doc = AnyDocument
    /\ open = <<>>

\* what the builder called for start tag e returns or enters
Built(e, width) ==
    CASE e.name = "map" -> Map_new(e.attributes)
      [] e.name = "tileset" -> Tileset_new(e.attributes)
      [] e.name = "layer" -> Layer_new(e.attributes, width)
      [] e.name = "objectgroup" -> ObjectGroup_new(e.attributes)
      [] e.name = "object" -> Object_new(e.attributes)

\* parse has been called on a well-formed document and has read the start
\* tags of sc.entry: the builders called for them are in their loops
DocInit ==
    \E sc \in Scenarios :
        LET entry == sc.entry
            n == Len(entry)
            width == IF n = 0 THEN 0
                     ELSE Built(entry[1], 0).frame.loc.width
        IN  /\ stack = <<parse_new>> \o
                   [i \in 1..n |->
                       [Built(entry[i], width).frame EXCEPT !.depth = i]]
            /\ ret = RetNone
            /\ result = Running
            /\ ev = IF n = 0 THEN NoEvent ELSE entry[n]
            /\ nread = n
            /\ ended = FALSE
            /\ doc = [wellformed |-> TRUE, entry |-> n, events |-> sc.events]
            /\ open = [i \in 1..n |->
                          [name |-> entry[i].name,
                           kids |-> IF i < n THEN <<entry[i + 1].name>>
                                    ELSE <<>>,
                           children |-> IF i < n THEN <<Child(entry[i + 1])>>
                                        ELSE <<>>]]

\* function fn is at the parser.next() of its loop
InLoop(fn) ==
    /\ result.kind = "Running"
    /\ ret.kind = "None"
    /\ stack # <<>>
    /\ Top.fn = fn

\* the events parser.next() can deliver next.  Of any document: any event,
\* and EndDocument after MaxEvents events and after EndDocument.  Of a
\* well-formed document: a root element first, then what the document can
\* contain or the end tag of the innermost open element, EndDocument once
\* the root is closed, and nothing beyond MaxDocEvents events after the
\* entry.
Deliverable ==
    IF ended THEN {EndDocument}
    ELSE IF ~doc.wellformed
    THEN IF nread >= MaxEvents THEN {EndDocument} ELSE Events
    ELSE IF open = <<>>
    THEN IF nread = 0
         THEN {e \in doc.events : e.type = "StartElement"}
         ELSE {EndDocument}
    ELSE IF nread >= doc.entry + MaxDocEvents THEN {}
    ELSE doc.events \cup {EndElement(open[Len(open)].name)}

\* the open elements after event e of a well-formed document
Opened(e) ==
    IF ~doc.wellformed THEN open
    ELSE IF e.type = "StartElement"
    THEN LET n == Len(open)
             parent == IF n = 0 THEN open
                       ELSE [open EXCEPT ![n].kids = Append(@, e.name),
                                         ![n].children = Append(@, Child(e))]
         IN  Append(parent, [name |-> e.name, kids |-> <<>>,
                             children |-> <<>>])
    ELSE IF e.type = "EndElement"
    THEN LET n == Len(open)
             closed == open[n]
             rest == SubSeq(open, 1, n - 1)
         IN  IF n < 2 THEN rest
             ELSE [rest EXCEPT
                      ![n - 1].children[Len(open[n - 1].children)].kids =
                          closed.kids]
    ELSE open

\* parser.next() delivers e
next(e) ==
    /\ e \in Deliverable
    /\ open' = Opened(e)
    /\ doc' = doc
    /\ ev' = e
    /\ ended' = (e.type = "EndDocument")
    /\ nread' = IF e.type = "EndDocument" THEN nread ELSE nread + 1

\* the arm of parse_tag! that event e takes (lib.rs 52-69)
TagArm(e, close_tag, open_tags) ==
    IF e.type = "StartElement"
    THEN IF e.name \in open_tags THEN "call" ELSE "skip"
    ELSE IF e.type = "EndElement"
    THEN IF e.name = close_tag THEN "break" ELSE "skip"
    ELSE IF e.type = "EndDocument" THEN "eof" ELSE "skip"

\* the builders that loop in parse_tag!, the name each gives as close_tag
\* and the names each has a handler for
TagBuilders ==
    {"Map", "Tileset", "Image", "Layer", "parse_properties", "ObjectGroup",
     "Object"}

CloseTag(fn) ==
    CASE fn = "Map" -> "map"
      [] fn = "Tileset" -> "tileset"
      [] fn = "Image" -> "image"
      [] fn = "Layer" -> "layer"
      [] fn = "parse_properties" -> "properties"
      [] fn = "ObjectGroup" -> "objectgroup"
      [] fn = "Object" -> "object"

OpenTags(fn) ==
    CASE fn = "Map" -> {"tileset", "layer", "properties", "objectgroup"}
      [] fn = "Tileset" -> {"image"}
      [] fn = "Image" -> {""}
      [] fn = "Layer" -> {"data", "properties"}
      [] fn = "parse_properties" -> {"property"}
      [] fn = "ObjectGroup" -> {"object"}
      [] fn = "Object" -> {"ellipse", "polyline", "polygon"}

PrematureEndInTag == PrematureEnd("Document ended before we expected.")

\* a builder is called: it enters its loop or returns Err to the caller
Call(r) ==
    IF r.ok
    THEN /\ stack' = Append(stack, [r.frame EXCEPT !.depth = Len(open')])
         /\ ret' = RetNone
    ELSE stack' = stack /\ ret' = RetErr(r.err)

\* the function on top of the stack returns rv
Return(rv) == stack' = Popped /\ ret' = rv

\* the loop goes on with the locals loc
Continue(loc) == stack' = WithLoc(loc) /\ ret' = RetNone

Skip == UNCHANGED <<stack, ret>>

----------------------------------------------------------------------------
(***************************************************************************)
(* One action per loop: the function on top of the stack takes the next    *)
(* event and matches it.                                                   *)
(***************************************************************************)
\* parse, lib.rs 502-512
parse_loop_AnyStart(e) ==
    /\ InLoop("parse")
    /\ next(e)
    /\ IF e.type = "StartElement"
       THEN Call(Map_new(e.attributes))
       ELSE IF e.type = "EndDocument"
       THEN Return(RetErr(PrematureEnd("Document ended before map was parsed")))
       ELSE Skip
    /\ UNCHANGED <<result, gidVars, cacheVars, decVars, ptVars>>
parse_loop(e) ==
    /\ InLoop("parse")
    /\ next(e)
    /\ IF e.type = "StartElement"
       THEN IF e.name = "map" THEN Call(Map_new(e.attributes)) ELSE Skip
       ELSE IF e.type = "EndDocument"
       THEN Return(RetErr(PrematureEnd("Document ended before map was parsed")))
       ELSE Skip
    /\ UNCHANGED <<result, gidVars, cacheVars, decVars, ptVars>>

\* Map::new, lib.rs 178-200
Map_loop(e) ==
    /\ InLoop("Map")
    /\ next(e)
    /\ LET arm == TagArm(e, CloseTag("Map"), OpenTags("Map"))
       IN  CASE arm = "call" ->
                  Call(CASE e.name = "tileset" -> Tileset_new(e.attributes)
                         [] e.name = "layer" ->
                               Layer_new(e.attributes, Top.loc.width)
                         [] e.name = "properties" -> parse_properties_new
                         [] e.name = "objectgroup" ->
                               ObjectGroup_new(e.attributes))
             [] arm = "break" -> Return(RetOk("Map", Top.loc))
             [] arm = "eof" -> Return(RetErr(PrematureEndInTag))
             [] arm = "skip" -> Skip
    /\ UNCHANGED <<result, gidVars, cacheVars, decVars, ptVars>>

\* Tileset::new, lib.rs 263-273
Tileset_loop(e) ==
    /\ InLoop("Tileset")
    /\ next(e)
    /\ LET arm == TagArm(e, CloseTag("Tileset"), OpenTags("Tileset"))
       IN  CASE arm = "call" -> Call(Image_new(e.attributes))
             [] arm = "break" -> Return(RetOk("Tileset", Top.loc))
             [] arm = "eof" -> Return(RetErr(PrematureEndInTag))
             [] arm = "skip" -> Skip
    /\ UNCHANGED <<result, gidVars, cacheVars, decVars, ptVars>>

\* Image::new, lib.rs 296-297; the handler of "" does nothing
Image_loop(e) ==
    /\ InLoop("Image")
    /\ next(e)
    /\ LET arm == TagArm(e, CloseTag("Image"), OpenTags("Image"))
       IN  CASE arm = "call" -> Skip
             [] arm = "break" -> Return(RetOk("Image", Top.loc))
             [] arm = "eof" -> Return(RetErr(PrematureEndInTag))
             [] arm = "skip" -> Skip
    /\ UNCHANGED <<result, gidVars, cacheVars, decVars, ptVars>>

\* Layer::new, lib.rs 322-332
Layer_loop(e) ==
    /\ InLoop("Layer")
    /\ next(e)
    /\ LET arm == TagArm(e, CloseTag("Layer"), OpenTags("Layer"))
       IN  CASE arm = "call" ->
                  Call(IF e.name = "data"
                       THEN parse_data_new(e.attributes, Top.loc.width)
                       ELSE parse_properties_new)
             [] arm = "break" -> Return(RetOk("Layer", Layer_struct(Top.loc)))
             [] arm = "eof" -> Return(RetErr(PrematureEndInTag))
             [] arm = "skip" -> Skip
    /\ UNCHANGED <<result, gidVars, cacheVars, decVars, ptVars>>

\* parse_data, lib.rs 465-495
parse_data_loop(e) ==
    /\ InLoop("parse_data")
    /\ next(e)
    /\ IF e.type = "Characters"
       THEN LET d == DecodeCharacters(e.text, Top.loc.width)
            IN  Return(IF d.ok THEN RetOk("parse_data", d.v) ELSE RetErr(d.err))
       ELSE IF e.type = "EndElement" /\ e.name = "data"
       THEN Return(RetOk("parse_data", <<>>))
       ELSE Skip
    /\ UNCHANGED <<result, gidVars, cacheVars, decVars, ptVars>>

\* parse_properties, lib.rs 131-142
parse_properties_loop(e) ==
    /\ InLoop("parse_properties")
    /\ next(e)
    /\ LET arm == TagArm(e, CloseTag("parse_properties"),
                         OpenTags("parse_properties"))
       IN  CASE arm = "call" ->
                  LET r == property_child(Top.loc.p, e.attributes)
                  IN  IF r.ok THEN Continue([p |-> r.v])
                      ELSE Return(RetErr(r.err))
             [] arm = "break" -> Return(RetOk("parse_properties", Top.loc.p))
             [] arm = "eof" -> Return(RetErr(PrematureEndInTag))
             [] arm = "skip" -> Skip
    /\ UNCHANGED <<result, gidVars, cacheVars, decVars, ptVars>>

\* ObjectGroup::new, lib.rs 355-363
ObjectGroup_loop(e) ==
    /\ InLoop("ObjectGroup")
    /\ next(e)
    /\ LET arm == TagArm(e, CloseTag("ObjectGroup"), OpenTags("ObjectGroup"))
       IN  CASE arm = "call" -> Call(Object_new(e.attributes))
             [] arm = "break" -> Return(RetOk("ObjectGroup", Top.loc))
             [] arm = "eof" -> Return(RetErr(PrematureEndInTag))
             [] arm = "skip" -> Skip
    /\ UNCHANGED <<result, gidVars, cacheVars, decVars, ptVars>>

\* Object::new, lib.rs 387-414
Object_loop(e) ==
    /\ InLoop("Object")
    /\ next(e)
    /\ LET arm == TagArm(e, CloseTag("Object"), OpenTags("Object"))
       IN  CASE arm = "call" ->
                  LET r == Object_child(Top.loc, e)
                  IN  IF r.ok
                      THEN Continue([Top.loc EXCEPT !.obj = OptSome(r.v)])
                      ELSE Return(RetErr(r.err))
             [] arm = "break" ->
                  LET r == Object_result(Top.loc)
                  IN  Return(IF r.ok THEN RetOk("Object", r.v)
                             ELSE RetErr(r.err))
             [] arm = "eof" -> Return(RetErr(PrematureEndInTag))
             [] arm = "skip" -> Skip
    /\ UNCHANGED <<result, gidVars, cacheVars, decVars, ptVars>>

\* the locals of the caller after the handler that called the builder has
\* taken its value v: the push or the assignment after try!
AfterChild(caller, child, v) ==
    LET loc == caller.loc
    IN  CASE child = "Tileset" ->
               [loc EXCEPT !.tilesets = Append(@, v)]
          [] child = "Image" -> [loc EXCEPT !.images = Append(@, v)]
          [] child = "Layer" -> [loc EXCEPT !.layers = Append(@, v)]
          [] child = "parse_data" ->
               [loc EXCEPT !.tiles = v, !.data_runs = @ + 1]
          [] child = "parse_properties" -> [loc EXCEPT !.properties = v]
          [] child = "ObjectGroup" ->
               [loc EXCEPT !.object_groups = Append(@, v)]
          [] child = "Object" -> [loc EXCEPT !.objects = Append(@, v)]

\* a builder returned Ok(v) to the handler that called it; parse returns
\* what Map::new returned (lib.rs 506)
HandlerOk ==
    /\ result.kind = "Running"
    /\ ret.kind = "Ok"
    /\ stack # <<>>
    /\ IF Top.fn = "parse"
       THEN Return(ret)
       ELSE Continue(AfterChild(Top, ret.fn, ret.v))
    /\ UNCHANGED <<result, ev, nread, ended, doc, open, gidVars, cacheVars,
                   decVars, ptVars>>

\* a builder returned Err(e) to the handler that called it: try! returns it
\* from the handler, and parse_tag! (lib.rs 58) or parse (lib.rs 506)
\* returns it from the caller
HandlerErr_Swallow ==
    /\ result.kind = "Running"
    /\ ret.kind = "Err"
    /\ stack # <<>>
    /\ stack' = stack /\ ret' = RetNone
    /\ UNCHANGED <<result, ev, nread, ended, doc, open, gidVars, cacheVars,
                   decVars, ptVars>>
HandlerErr ==
    /\ result.kind = "Running"
    /\ ret.kind = "Err"
    /\ stack # <<>>
    /\ Return(ret)
    /\ UNCHANGED <<result, ev, nread, ended, doc, open, gidVars, cacheVars,
                   decVars, ptVars>>

\* parse has returned: its caller holds the Result
parse_return ==
    /\ result.kind = "Running"
    /\ ret.kind # "None"
    /\ stack = <<>>
    /\ result' = ret
    /\ UNCHANGED <<stack, ret, ev, nread, ended, doc, open, gidVars, cacheVars,
                   decVars, ptVars>>

Next ==
    \/ \E e \in AllEvents : parse_loop(e)
    \/ \E e \in AllEvents : Map_loop(e)
    \/ \E e \in AllEvents : Tileset_loop(e)
    \/ \E e \in AllEvents : Image_loop(e)
    \/ \E e \in AllEvents : Layer_loop(e)
    \/ \E e \in AllEvents : parse_data_loop(e)
    \/ \E e \in AllEvents : parse_properties_loop(e)
    \/ \E e \in AllEvents : ObjectGroup_loop(e)
    \/ \E e \in AllEvents : Object_loop(e)
    \/ HandlerOk
    \/ HandlerErr
    \/ parse_return


----------------------------------------------------------------------------
(***************************************************************************)
(* The decoder on an encoded grid.  The identifiers are serialised in      *)
(* little-endian order, compressed, base64-encoded and handed to the       *)
(* Characters(s) arm of parse_data together with a width.                  *)
(***************************************************************************)
MaxIds   == 4
MaxWidth == 3

\* the u32 identifiers a grid is drawn from: 258 has distinct low bytes,
\* 2^31 + 5 has the top bit set
TileIds == {U32(0, 0), U32(0, 1), U32(0, 258), U32(1, 5)}

\* u.to_le_bytes()
ToLeBytes(u) ==
    <<u.low % 256, (u.low \div 256) % 256, (u.low \div 65536) % 256,
      u.low \div 16777216 + 128 * u.msb>>

RECURSIVE WriteAll(_)
WriteAll(values) ==
    IF values = <<>> THEN <<>>
    ELSE ToLeBytes(Head(values)) \o WriteAll(Tail(values))

\* a zlib stream of the bytes: header, stored bytes, check value
Deflate(raw) == ZlibHeader \o raw \o <<ByteSum(raw)>>

\* the base64 digits of one group of 1, 2 or 3 bytes, padded to four
BytesGroup(g) ==
    LET b(i) == IF i <= Len(g) THEN g[i] ELSE 0
        d1 == b(1) \div 4
        d2 == (b(1) % 4) * 16 + b(2) \div 16
        d3 == (b(2) % 16) * 4 + b(3) \div 64
        d4 == b(3) % 64
    IN  SubSeq(<<d1, d2, d3, d4>>, 1, Len(g) + 1)
            \o [i \in 1..(3 - Len(g)) |-> Pad]

RECURSIVE ToBase64(_)
ToBase64(bytes) ==
    IF bytes = <<>> THEN <<>>
    ELSE IF Len(bytes) <= 3 THEN BytesGroup(bytes)
    ELSE BytesGroup(SubSeq(bytes, 1, 3))
             \o ToBase64(SubSeq(bytes, 4, Len(bytes)))

NotDecoded == [ok |-> FALSE, v |-> <<>>, err |-> NoError]

DecIdle ==
    /\ payload_ids = <<>>
    /\ payload_width = 0
    /\ payload_text = <<>>
    /\ decoded = NotDecoded
    /\ dpc = "idle"

DecInit ==
    /\ payload_ids \in UNION {[1..n -> TileIds] : n \in 0..MaxIds}
    /\ payload_width \in 0..MaxWidth
    /\ payload_text = <<>>
    /\ decoded = NotDecoded
    /\ dpc = "ids"

\* the inverse of the decoder's pipeline; the text may carry white space
\* around the digits, as the text of an XML element does
Encode(lead, trail) ==
    /\ dpc = "ids"
    /\ payload_text' = [i \in 1..lead |-> Space]
                           \o ToBase64(Deflate(WriteAll(payload_ids)))
                           \o [i \in 1..trail |-> Space]
    /\ dpc' = "text"
    /\ UNCHANGED <<payload_ids, payload_width, decoded>>
    /\ UNCHANGED <<gidVars, cacheVars, parseVars, ptVars>>

\* parse_data's Characters(s) arm on the text (lib.rs 467-487)
Decode ==
    /\ dpc = "text"
    /\ decoded' = DecodeCharacters(Payload(payload_text), payload_width)
    /\ dpc' = "done"
    /\ UNCHANGED <<payload_ids, payload_width, payload_text>>
    /\ UNCHANGED <<gidVars, cacheVars, parseVars, ptVars>>

DecNext ==
    \/ \E lead \in 0..1, trail \in 0..1 : Encode(lead, trail)
    \/ Decode

----------------------------------------------------------------------------
(***************************************************************************)
(* Object::parse_points on one text                                        *)
(***************************************************************************)
MaxPointsLen == 7

\* the characters the texts are drawn from: a digit, the sign, the two
\* separators
PointAlphabet == {"1", "-", ",", " "}

NoPoints == [ok |-> FALSE, v |-> <<>>, err |-> NoError]

PtIdle ==
    /\ points_text = PointsAbsent
    /\ points_result = NoPoints
    /\ ppc = "idle"

\* a polygon child without points, or with a text: every text of up to
\* MaxPointsLen characters, and the texts of the attributes
PtInit ==
    /\ points_text \in
           {PointsAbsent} \cup
           {PointsGiven(cs) :
               cs \in UNION {[1..n -> PointAlphabet] : n \in 0..MaxPointsLen}
                          \cup {PointsChars[s] : s \in DOMAIN PointsChars}}
    /\ points_result = NoPoints
    /\ ppc = "text"

\* Object::new_polygon up to the points it builds, lib.rs 427-433
PtParse ==
    /\ ppc = "text"
    /\ points_result' = poly_points("Polygon", points_text)
    /\ ppc' = "done"
    /\ UNCHANGED <<points_text, gidVars, cacheVars, parseVars, decVars>>

PtNext == PtParse
----------------------------------------------------------------------------
\* the state in which get_tileset_by_gid is entered; the cache is not used
GidSpecInit == GidInit /\ CacheIdle /\ ParseIdle /\ DecIdle /\ PtIdle

\* a fresh cache; get_tileset_by_gid is not called
CacheSpecInit == CacheInit /\ GidIdle /\ ParseIdle /\ DecIdle /\ PtIdle

\* parse is called; the cache and get_tileset_by_gid are not used
Init == ParseInit /\ GidIdle /\ CacheIdle /\ DecIdle /\ PtIdle

\* parse is reading a well-formed document
DocSpecInit == DocInit /\ GidIdle /\ CacheIdle /\ DecIdle /\ PtIdle

\* a grid is about to be encoded and decoded; nothing else runs
DecSpecInit == DecInit /\ GidIdle /\ CacheIdle /\ ParseIdle /\ PtIdle

\* parse_points is about to be called on a text; nothing else runs
PtSpecInit ==
    PtInit /\ GidIdle /\ CacheIdle /\ ParseIdle /\ DecIdle

GidSpec   == GidSpecInit /\ [][GidNext]_vars
CacheSpec == CacheSpecInit /\ [][CacheNext]_vars
Spec      == Init /\ [][Next]_vars
DocSpec   == DocSpecInit /\ [][Next]_vars
DecSpec   == DecSpecInit /\ [][DecNext]_vars
PtSpec    == PtSpecInit /\ [][PtNext]_vars

----------------------------------------------------------------------------
(***************************************************************************)
(* Claims about Map::get_tileset_by_gid, checked under GidSpec             *)
(***************************************************************************)
FirstGidAt(i) == map_tilesets[i].first_gid

\* tilesets whose first_gid is strictly below the queried gid
Below == {i \in 1..Len(map_tilesets) : ULess(FirstGidAt(i), gid)}

\* C1: once the scan has returned, the result is a tileset whose first_gid is
\* the greatest first_gid strictly less than gid, and None when no tileset
\* has first_gid < gid.
C1_GreatestStrictlyBelow ==
    gpc = "done" =>
        IF Below = {}
        THEN maximum_ts = 0
        ELSE /\ maximum_ts \in Below
             /\ \A j \in Below : ~ULess(FirstGidAt(maximum_ts), FirstGidAt(j))

DistinctFirstGids ==
    \A i, j \in 1..Len(map_tilesets) :
        FirstGidAt(i) = FirstGidAt(j) => i = j

\* tilesets whose range [first_gid, next larger first_gid) contains gid
Containing ==
    {i \in 1..Len(map_tilesets) :
        /\ ~ULess(gid, FirstGidAt(i))
        /\ \A j \in 1..Len(map_tilesets) :
              ULess(FirstGidAt(i), FirstGidAt(j)) => ULess(gid, FirstGidAt(j))}

\* C2: with distinct first_gids, the result is the tileset whose range, from
\* its own first_gid (inclusive) to the next larger first_gid (exclusive),
\* contains gid; a gid equal to a tileset's first_gid yields that tileset.
C2_RangeContainsGid ==
    (gpc = "done" /\ DistinctFirstGids) =>
        IF Containing = {}
        THEN maximum_ts = 0
        ELSE maximum_ts \in Containing

\* C21: first_gid is unsigned over its whole range: when some tileset with
\* first_gid of 2^31 or more lies strictly below gid, the result is such a
\* tileset and has the greatest first_gid strictly below gid; it is neither
\* None nor a tileset with a smaller first_gid.
C21_UnsignedOverWholeRange ==
    (gpc = "done" /\ \E i \in Below : FirstGidAt(i).msb = 1) =>
        /\ maximum_ts \in Below
        /\ FirstGidAt(maximum_ts).msb = 1
        /\ \A j \in Below : ~ULess(FirstGidAt(maximum_ts), FirstGidAt(j))

----------------------------------------------------------------------------
(***************************************************************************)
(* Claims about the resource cache, checked under CacheSpec                *)
(***************************************************************************)
\* the step is a call of the named trait method
Called(op) == nops' = nops + 1 /\ last'.op = op

\* C3 as stated: the factory is invoked at most once per path, however many
\* calls are made and whether or not the factory fails.
C3_AtMostOneInvocation == \A p \in Paths : calls[p] <= 1

\* C3 amended: per path at most one factory invocation succeeds, and once a
\* path is cached no call invokes a factory for it again.
C3_AtMostOneSuccessfulLoad ==
    [][\A p \in Paths :
          /\ okCalls'[p] <= 1
          /\ p \in DOMAIN tilesets => calls'[p] = calls[p]]_vars

\* a failed load, a successful one, then a call that found the path cached
C3_Witness ==
    /\ last.op = "insert" /\ ~last.called /\ last.path \in DOMAIN tilesets
    /\ calls[last.path] = 2 /\ okCalls[last.path] = 1

\* C4: a call for a path not in the cache whose factory returns an error
\* returns exactly that error and leaves the cache as it was.
C4_ErrorLeavesCacheIntact ==
    [][(/\ Called("insert")
        /\ last'.path \notin DOMAIN tilesets
        /\ ~last'.f.ok)
       => (/\ last'.ret = Err(last'.f.v)
           /\ tilesets' = tilesets
           /\ last'.path \notin DOMAIN tilesets')]_vars

\* a failed call on a cache that already holds another path
C4_Witness ==
    /\ last.op = "insert" /\ last.called /\ last.ret.kind = "Err"
    /\ last.path \notin DOMAIN tilesets
    /\ DOMAIN tilesets # {}

\* C5: on a present path the call returns the stored tileset, invokes no
\* factory and changes nothing; on an absent path it invokes the factory
\* once and on success stores and returns the new tileset; no call ever
\* replaces or removes an entry, so later calls return that same Arc.
C5_InsertContract ==
    [][/\ \A q \in DOMAIN tilesets :
             q \in DOMAIN tilesets' /\ tilesets'[q] = tilesets[q]
       /\ Called("insert") =>
             IF last'.path \in DOMAIN tilesets
             THEN /\ last'.ret = Ok(tilesets[last'.path])
                  /\ calls' = calls
                  /\ tilesets' = tilesets
             ELSE /\ calls'[last'.path] = calls[last'.path] + 1
                  /\ last'.f.ok =>
                        /\ last'.path \in DOMAIN tilesets'
                        /\ tilesets'[last'.path].ts = last'.f.v
                        /\ \A q \in DOMAIN tilesets :
                              tilesets[q].arc # tilesets'[last'.path].arc
                        /\ last'.ret = Ok(tilesets'[last'.path])
       /\ (Called("get") /\ last'.path \in DOMAIN tilesets) =>
             last'.ret = Some(tilesets[last'.path])]_vars

\* a call on a cached path whose factory would have built another tileset
C5_Witness ==
    /\ last.op = "insert" /\ ~last.called /\ last.f.ok
    /\ last.ret.kind = "Ok" /\ last.ret.v # last.f.v
    /\ Cardinality(DOMAIN tilesets) = 2

\* C6: get_tileset changes nothing, and returns the stored tileset exactly
\* when an earlier get_or_try_insert_tileset_with for the path succeeded.
C6_GetContract ==
    [][Called("get") =>
          /\ tilesets' = tilesets
          /\ calls' = calls /\ okCalls' = okCalls /\ nextArc' = nextArc
          /\ IF okCalls[last'.path] > 0
             THEN /\ last'.path \in DOMAIN tilesets
                  /\ last'.ret = Some(tilesets[last'.path])
             ELSE last'.ret = None]_vars

\* a get that finds the tileset a previous call stored, another path missing
C6_Witness ==
    /\ last.op = "get" /\ last.ret.kind = "Some"
    /\ okCalls[last.path] = 1
    /\ \E q \in Paths : calls[q] > 0 /\ okCalls[q] = 0

----------------------------------------------------------------------------
(***************************************************************************)
(* Claims about parse and the builders, checked under Spec                 *)
(***************************************************************************)
\* C7: while parse is in its own loop, a start-element named map hands the
\* stream to the Map builder (which enters its loop or fails on the
\* attributes), EndDocument makes parse fail with PrematureEnd, and every
\* other event is skipped; what the Map builder returns is what parse
\* returns.
C7_ParseScansForMap ==
    [][/\ InLoop("parse") =>
             IF ev'.type = "StartElement" /\ ev'.name = "map"
             THEN \/ /\ Len(stack') = 2 /\ stack'[1] = stack[1]
                     /\ stack'[2].fn = "Map" /\ ret'.kind = "None"
                  \/ /\ stack' = stack /\ ret'.kind = "Err"
                     /\ ret'.err = MalformedAttributes("map")
             ELSE IF ev'.type = "EndDocument"
             THEN /\ stack' = <<>>
                  /\ ret'.kind = "Err" /\ ret'.err.kind = "PrematureEnd"
             ELSE stack' = stack /\ ret' = ret
       /\ (Len(stack) = 1 /\ ret.kind # "None") => (stack' = <<>> /\ ret' = ret)
       /\ (stack = <<>> /\ result.kind = "Running") => result' = ret
       /\ result'.kind = "Ok" => result'.fn = "Map"]_vars

\* parse skipped three events or more and then met the end of the document
C7_Witness ==
    /\ result.kind = "Err"
    /\ result.err = PrematureEnd("Document ended before map was parsed")
    /\ nread >= 3

\* C8: once the source has delivered EndDocument to a function that is in
\* its loop, that function fails with PrematureEnd (so parse terminates with
\* PrematureEnd whenever the document ends with an element still open).
C8_EndDocumentIsPrematureEnd ==
    ended => (ret.kind = "Err" /\ ret.err.kind = "PrematureEnd")

\* C9: once a function has returned an error, no event is consumed any
\* more: every caller in turn returns the same error, and it becomes the
\* result of parse; a parse that saw an error returns no Map.
C9_FirstErrorIsTheResult ==
    [][ret.kind = "Err" =>
          /\ result.kind = "Running"
          /\ ret' = ret
          /\ ev' = ev /\ nread' = nread /\ ended' = ended
          /\ IF stack = <<>>
             THEN result' = ret /\ stack' = stack
             ELSE result' = result /\ stack' = Popped]_vars

\* an error of the tile-data decoder, four calls deep, is the result
C9_Witness ==
    /\ result.kind = "Err"
    /\ result.err = DecodingError
    /\ stack = <<>>

\* C10: in a Map that parse returned, every row of every layer's tiles has
\* exactly width entries.
C10_RowsHaveMapWidth ==
    result.kind = "Ok" =>
        \A i \in 1..Len(result.v.layers) :
            \A r \in 1..Len(result.v.layers[i].tiles) :
                Len(result.v.layers[i].tiles[r]) = result.v.width

\* a returned Map of width 2 with a layer that holds a row
C10_Witness ==
    /\ result.kind = "Ok"
    /\ result.v.width = 2
    /\ \E i \in 1..Len(result.v.layers) : Len(result.v.layers[i].tiles) >= 1

\* C11: decoding a stream of n little-endian u32 identifiers with a width
\* w > 0 succeeds with n div w rows of w columns, row r column c (from 0)
\* being identifier r * w + c of the stream; the identifiers of a trailing
\* partial row are dropped without an error.
C11_RowsInStreamOrder ==
    (dpc = "done" /\ payload_width > 0) =>
        /\ decoded.ok
        /\ Len(decoded.v) = Len(payload_ids) \div payload_width
        /\ \A r \in 1..Len(decoded.v) :
               /\ Len(decoded.v[r]) = payload_width
               /\ \A c \in 1..payload_width :
                      decoded.v[r][c] =
                          payload_ids[(r - 1) * payload_width + c]

\* three identifiers decoded with width 2: one row, the third one dropped
C11_Witness ==
    /\ dpc = "done"
    /\ payload_width = 2
    /\ Len(payload_ids) = 3
    /\ decoded.ok
    /\ decoded.v = <<SubSeq(payload_ids, 1, 2)>>

\* the grid of rows of length payload_width that payload_ids serialises
EncodedGrid ==
    [r \in 1..(Len(payload_ids) \div payload_width) |->
        SubSeq(payload_ids, (r - 1) * payload_width + 1, r * payload_width)]

\* C14: a grid whose rows all have length width > 0, serialised in
\* little-endian order, zlib-compressed and base64-encoded, decodes with
\* the same width to the original grid.
C14_RoundTrip ==
    (/\ dpc = "done"
     /\ payload_width > 0
     /\ Len(payload_ids) % payload_width = 0) =>
        (decoded.ok /\ decoded.v = EncodedGrid)

\* a 2 x 2 grid with an identifier above 2^31 and one with distinct bytes
C14_Witness ==
    /\ dpc = "done"
    /\ payload_width = 2
    /\ Len(payload_ids) = 4
    /\ payload_ids[1] = U32(1, 5)
    /\ payload_ids[4] = U32(0, 258)
    /\ payload_text[1] = Space
    /\ decoded.ok
    /\ decoded.v = EncodedGrid

\* C13: every Map that parse returns has a strictly positive width, height,
\* tile_width and tile_height; a map element giving 0 for one of them is
\* not accepted.
C13_MapDimensionsPositive ==
    result.kind = "Ok" =>
        /\ result.v.width > 0
        /\ result.v.height > 0
        /\ result.v.tile_width > 0
        /\ result.v.tile_height > 0

\* the texts an attribute list gives for the attribute called name
Given(attrs, name) ==
    {attrs[i][2] : i \in {j \in 1..Len(attrs) : attrs[j][1] = name}}

\* the layer's loop has just read the start tag of a data element
DataStartRead ==
    /\ InLoop("Layer")
    /\ ev'.type = "StartElement"
    /\ ev'.name = "data"

\* parse_data returned err on the start tag itself: the layer's loop read
\* one event and no function was entered
RejectedAtStart(err) ==
    /\ ret'.kind = "Err"
    /\ ret'.err = err
    /\ stack' = stack
    /\ nread' = nread + 1

\* C12 as stated: a data element whose encoding and compression are not
\* base64 and zlib, one of the two not being given included, fails with
\* Other before any payload event is read.
C12_UnsupportedIsOther ==
    [][(/\ DataStartRead
        /\ ~(/\ Given(ev'.attributes, "encoding") = {"base64"}
             /\ Given(ev'.attributes, "compression") = {"zlib"}))
       => (/\ ret'.kind = "Err"
           /\ ret'.err.kind = "Other"
           /\ stack' = stack
           /\ nread' = nread + 1)]_vars

\* C12: a data element that gives both encoding and compression, but not
\* base64 and zlib, fails with Other; one that does not give both fails
\* with MalformedAttributes; either way on the start tag, before any
\* payload event is read, and never with a decoding error.  base64 with
\* zlib enters the decoder.
C12_UnsupportedOrMalformed ==
    [][DataStartRead =>
          LET enc  == Given(ev'.attributes, "encoding")
              comp == Given(ev'.attributes, "compression")
          IN  IF enc = {} \/ comp = {}
              THEN RejectedAtStart(MalformedAttributes("data"))
              ELSE IF ~(enc = {"base64"} /\ comp = {"zlib"})
              THEN RejectedAtStart(
                       Other("Only base64 and zlib allowed for the moment"))
              ELSE /\ ret' = RetNone
                   /\ Len(stack') = Len(stack) + 1
                   /\ stack'[Len(stack')].fn = "parse_data"]_vars

\* base64 with gzip has been rejected with Other, and the error has become
\* the result of parse with no further event read
C12_Witness ==
    /\ result.kind = "Err"
    /\ result.err.kind = "Other"
    /\ ev.type = "StartElement"
    /\ ev.name = "data"
    /\ Given(ev.attributes, "compression") = {"gzip"}
    /\ doc.wellformed

\* the function on top of the stack is in its loop and the innermost open
\* element of the document is the one it was called for
AtOwnElement(fn) == InLoop(fn) /\ Len(open) = Top.depth

\* the shape children, in document order, of the element the function on
\* top of the stack was called for
ShapeChildren ==
    SelectSeq(open[Top.depth].kids,
              LAMBDA n : n \in {"ellipse", "polyline", "polygon"})

VariantOf(name) ==
    CASE name = "ellipse" -> "Ellipse"
      [] name = "polyline" -> "Polyline"
      [] name = "polygon" -> "Polygon"

\* C15: an object element yields one variant, determined by its shape
\* child.  When Object::new reads the end tag of its element: with no shape
\* child it returns a Rect with the element's x, y, width, height and
\* visibility if width and height were given, and MalformedAttributes if
\* not; with a shape child it returns the variant of that child.  An
\* ellipse child of an object lacking width or height is
\* MalformedAttributes.
C15_VariantByShapeChild ==
    [][/\ (AtOwnElement("Object") /\ ev'.type = "EndElement") =>
              IF ShapeChildren = <<>>
              THEN IF Top.loc.w.some /\ Top.loc.h.some
                   THEN /\ ret'.kind = "Ok"
                        /\ ret'.v = [variant |-> "Rect",
                                     x |-> Top.loc.x, y |-> Top.loc.y,
                                     width |-> Top.loc.w.v,
                                     height |-> Top.loc.h.v,
                                     visible |-> Top.loc.v]
                   ELSE /\ ret'.kind = "Err"
                        /\ ret'.err.kind = "MalformedAttributes"
              ELSE /\ ret'.kind = "Ok"
                   /\ ret'.v.variant =
                          VariantOf(ShapeChildren[Len(ShapeChildren)])
       /\ (/\ AtOwnElement("Object")
           /\ ev'.type = "StartElement"
           /\ ev'.name = "ellipse"
           /\ ~(Top.loc.w.some /\ Top.loc.h.some)) =>
              (ret'.kind = "Err" /\ ret'.err.kind = "MalformedAttributes")
      ]_vars

\* a parse_tag! loop is on top of the stack and the document is inside a
\* child of its element that it has no handler for
InUnrecognizedChild ==
    /\ result.kind = "Running"
    /\ ret.kind = "None"
    /\ stack # <<>>
    /\ Top.fn \in TagBuilders
    /\ Len(open) > Top.depth
    /\ open[Top.depth + 1].name \notin OpenTags(Top.fn)

\* C16: in a well-nested stream an unrecognized child and everything nested
\* inside it has no effect on the entity being built: while the document is
\* inside such a child no handler of the enclosing builder is called and the
\* builder neither changes its locals nor returns.
C16_UnrecognizedSubtreeIgnored ==
    [][InUnrecognizedChild => (stack' = stack /\ ret' = ret)]_vars

\* C17: in a well-nested stream a parse_tag! loop returns on the end tag of
\* the element its builder was called for, and on no other end tag, also
\* when an element of the same name is nested inside it.
C17_ReturnsOnOwnEndTag ==
    [][\A fn \in TagBuilders :
          (InLoop(fn) /\ ev'.type = "EndElement") =>
              (Len(stack') < Len(stack) <=> Len(open) = Top.depth)]_vars

\* C19: when Layer::new returns a layer, parse_data has run exactly once
\* for it, and the layer's grid is what that run returned.
C19_DecoderRunsOncePerLayer ==
    [][(InLoop("Layer") /\ ret'.kind = "Ok" /\ ret'.fn = "Layer") =>
          Top.loc.data_runs = 1]_vars

\* C20: the decoder of a supported data element reads the events up to the
\* end tag of that element, so character data of a data child that is still
\* open is never delivered to the loop of Layer::new.
C20_DecoderReadsToEndTag ==
    [][(/\ InLoop("Layer")
        /\ Len(open) = Top.depth + 1
        /\ open[Len(open)].name = "data")
       => ev'.type # "Characters"]_vars

\* the u32 an attribute list gives for name: None when the attribute is
\* absent or its text is not a u32
U32Given(attrs, name) ==
    IF Given(attrs, name) = {} THEN OptNone
    ELSE ParseU32(CHOOSE s \in Given(attrs, name) : TRUE)

\* C18: attribute extraction, on the tileset element.  Attributes that are
\* not asked for are ignored; an optional field is the value of its
\* attribute when that is present and converts and None (here the default
\* 0) when it is absent or does not convert; when a required attribute is
\* absent or does not convert, Tileset::new returns MalformedAttributes on
\* the start tag.  Once a function has returned an error no further event
\* is read and the callers are left without changing their locals, so no
\* entity is added to the parent.
C18_AttributeExtraction ==
    [][/\ (InLoop("Map") /\ ev'.type = "StartElement"
                         /\ ev'.name = "tileset") =>
              LET a  == ev'.attributes
                  g  == U32Given(a, "firstgid")
                  w  == U32Given(a, "tilewidth")
                  h  == U32Given(a, "tileheight")
                  s  == U32Given(a, "spacing")
                  m  == U32Given(a, "margin")
              IN  IF g.some /\ w.some /\ h.some /\ Given(a, "name") # {}
                  THEN /\ ret' = RetNone
                       /\ Len(stack') = Len(stack) + 1
                       /\ SubSeq(stack', 1, Len(stack)) = stack
                       /\ stack'[Len(stack')].fn = "Tileset"
                       /\ LET loc == stack'[Len(stack')].loc
                          IN  /\ loc.first_gid = g.v
                              /\ loc.tile_width = w.v
                              /\ loc.tile_height = h.v
                              /\ {loc.name} = Given(a, "name")
                              /\ loc.spacing = IF s.some THEN s.v ELSE 0
                              /\ loc.margin = IF m.some THEN m.v ELSE 0
                  ELSE /\ ret'.kind = "Err"
                       /\ ret'.err = MalformedAttributes("tileset")
                       /\ stack' = stack
                       /\ nread' = nread + 1
       /\ (result.kind = "Running" /\ ret.kind = "Err") =>
              /\ nread' = nread
              /\ Len(stack') <= Len(stack)
              /\ stack' = SubSeq(stack, 1, Len(stack'))
      ]_vars

\* a tileset without firstgid, among attributes that are ignored or given:
\* the error is the result of parse and the tileset start tag is the last
\* event read
C18_Witness ==
    /\ result.kind = "Err"
    /\ result.err = MalformedAttributes("tileset")
    /\ ev.type = "StartElement"
    /\ ev.name = "tileset"
    /\ Given(ev.attributes, "firstgid") = {}
    /\ nread = 2
    /\ doc.wellformed

----------------------------------------------------------------------------
(***************************************************************************)
(* Claims about the points of polylines and polygons, checked under PtSpec *)
(***************************************************************************)
\* the positions of the spaces of the points text, with the positions just
\* before its first and just after its last character
TokenBounds ==
    LET cs == points_text.v
        spaces == {p \in 1..Len(cs) : cs[p] = " "}
        nth(k) == CHOOSE p \in spaces :
                      Cardinality({q \in spaces : q < p}) = k - 1
    IN  <<0>> \o [k \in 1..Cardinality(spaces) |-> nth(k)] \o <<Len(cs) + 1>>

\* the tokens of the points text: what lies between two neighbouring spaces
TokensOfText ==
    [i \in 1..(Len(TokenBounds) - 1) |->
        SubSeq(points_text.v, TokenBounds[i] + 1, TokenBounds[i + 1] - 1)]

\* an integer: digits, with or without a sign in front
IsInteger(cs) ==
    LET ds == IF cs # <<>> /\ cs[1] = "-" THEN Tail(cs) ELSE cs
    IN  ds # <<>> /\ \A i \in 1..Len(ds) : ds[i] \in DOMAIN DigitValue

\* the positions of a comma that has an integer on either side
PairCommas(tok) ==
    {k \in 1..Len(tok) :
        /\ tok[k] = ","
        /\ IsInteger(SubSeq(tok, 1, k - 1))
        /\ IsInteger(SubSeq(tok, k + 1, Len(tok)))}

PairOf(tok) ==
    LET k == CHOOSE c \in PairCommas(tok) : TRUE
    IN  <<ParseI32Text(SubSeq(tok, 1, k - 1)).v,
          ParseI32Text(SubSeq(tok, k + 1, Len(tok))).v>>

\* C22: a polyline or polygon child without a points attribute is
\* MalformedAttributes.  The points text is split on single spaces; when
\* every token is two integers separated by one comma the result is one pair
\* per token, in the order of the tokens; otherwise it is
\* MalformedAttributes.
C22_PointsParsing ==
    ppc = "done" =>
        IF /\ points_text.some
           /\ \A i \in 1..Len(TokensOfText) : PairCommas(TokensOfText[i]) # {}
        THEN /\ points_result.ok
             /\ Len(points_result.v) = Len(TokensOfText)
             /\ \A i \in 1..Len(TokensOfText) :
                    points_result.v[i] = PairOf(TokensOfText[i])
        ELSE /\ ~points_result.ok
             /\ points_result.err.kind = "MalformedAttributes"

\* "0,0 10,0 10,10" has yielded (0,0), (10,0), (10,10)
C22_Witness ==
    /\ ppc = "done"
    /\ points_text = PointsGiven(PointsChars["0,0 10,0 10,10"])
    /\ points_result.ok
    /\ points_result.v = <<<<0, 0>>, <<10, 0>>, <<10, 10>>>>

-----------------------------------------------------------------------------
(***************************************************************************)
(* Claims about the order of the children, checked under DocSpec           *)
(***************************************************************************)
\* the direct children called name, in document order
Direct(children, name) == SelectSeq(children, LAMBDA c : c.name = name)

\* how many of the names are name
CountOf(names, name) == Len(SelectSeq(names, LAMBDA k : k = name))

\* C23: children are processed in document order.  When Map::new returns the
\* map of a well-formed document, tilesets, layers and object_groups have
\* one entry per direct child element of that name, entry i built from the
\* i-th such child, and each tileset's images and each object group's
\* objects have one entry per direct image or object child of its element.
C23_ChildrenInDocumentOrder ==
    [][(InLoop("Map") /\ ret'.kind = "Ok" /\ ret'.fn = "Map") =>
          LET m   == ret'.v
              c   == open[Top.depth].children
              ts  == Direct(c, "tileset")
              ls  == Direct(c, "layer")
              ogs == Direct(c, "objectgroup")
          IN  /\ Len(m.tilesets) = Len(ts)
              /\ \A i \in 1..Len(ts) :
                    /\ m.tilesets[i].first_gid =
                           U32Given(ts[i].attributes, "firstgid").v
                    /\ Len(m.tilesets[i].images) = CountOf(ts[i].kids, "image")
              /\ Len(m.layers) = Len(ls)
              /\ \A i \in 1..Len(ls) :
                    m.layers[i].name \in Given(ls[i].attributes, "name")
              /\ Len(m.object_groups) = Len(ogs)
              /\ \A i \in 1..Len(ogs) :
                    /\ m.object_groups[i].name \in
                           Given(ogs[i].attributes, "name")
                    /\ Len(m.object_groups[i].objects) =
                           CountOf(ogs[i].kids, "object")
      ]_vars

====
